---------------------------- MODULE Spec2Model ----------------------------
(***************************************************************************)
(* A model of the JSON discovery-and-storage core of AuraVerse:            *)
(*   CatagorisingJSON.py      flatten_json .. categorize_and_model         *)
(*   Save_Classified_File.py  safe_ident .. save_json_nosql                *)
(*                                                                         *)
(* Python strings are sequences of one-character strings, so that the      *)
(* string operations of the code (rstrip, replace, split, re.sub, lower,   *)
(* "[]" in key, key.count(".")) are modelled by what they do.              *)
(* Python floats that the code compares with thresholds are exact          *)
(* rationals <<num, den>> with den > 0.                                    *)
(* Record indices are the 0-based Python indices; objs[i + 1] is record i. *)
(***************************************************************************)
EXTENDS Integers, Sequences, FiniteSets, TLC

(***************************************************************************)
(* Bounds of the model: the records of a batch handed to the clustering;   *)
(* the calls of save_json_sqlite in a run plus the records passed to them; *)
(* the calls of save_json_nosql in a run plus the records passed to them.  *)
(***************************************************************************)
MaxBatch == 3
MaxWork == 4
MaxLines == 5

VARIABLES
  all_objs, \* the batch handed to the functions of CatagorisingJSON.py
  ret,     \* what the last of these functions returned
  store_db, \* the tables of store.db
  nosql_store, \* the files of nosql_store
  calls    \* the calls of save_json_sqlite / save_json_nosql so far, with
           \* their arguments and outcome: ok (it returned), failed (the
           \* record whose INSERT raised), added (the rows the parent table,
           \* or the lines the file, gained)

vars == <<all_objs, ret, store_db, nosql_store, calls>>

(***************************************************************************)
(* Characters and strings.                                                 *)
(***************************************************************************)
UpperChars == <<"A","B","C","D","E","F","G","H","I","J","K","L","M",
                "N","O","P","Q","R","S","T","U","V","W","X","Y","Z">>
LowerChars == <<"a","b","c","d","e","f","g","h","i","j","k","l","m",
                "n","o","p","q","r","s","t","u","v","w","x","y","z">>
DigitChars == <<"0","1","2","3","4","5","6","7","8","9">>

\* The characters of the model in code-point order (Python compares strings
\* by code point).
CharOrder == <<"\n", " ", "\"", ",", "-", ".">> \o DigitChars \o <<":">>
             \o UpperChars \o <<"[", "\\", "]", "_">> \o LowerChars
             \o <<"{", "}">>

Range(s) == {s[i] : i \in 1..Len(s)}

Ord(c) == CHOOSE i \in 1..Len(CharOrder) : CharOrder[i] = c

\* s < t for Python strings.
RECURSIVE StrLess(_, _)
StrLess(s, t) ==
  IF t = <<>> THEN FALSE
  ELSE IF s = <<>> THEN TRUE
  ELSE IF s[1] = t[1] THEN StrLess(Tail(s), Tail(t))
  ELSE Ord(s[1]) < Ord(t[1])

\* sub in s
Contains(s, sub) ==
  \E i \in 1..(Len(s) - Len(sub) + 1) : SubSeq(s, i, i + Len(sub) - 1) = sub

\* s.startswith(p)
StartsWith(s, p) == Len(p) <= Len(s) /\ SubSeq(s, 1, Len(p)) = p

\* s.endswith(p)
EndsWith(s, p) == Len(p) <= Len(s) /\ SubSeq(s, Len(s) - Len(p) + 1, Len(s)) = p

\* s.rstrip(".")
RECURSIVE RStripDot(_)
RStripDot(s) ==
  IF s # <<>> /\ s[Len(s)] = "." THEN RStripDot(SubSeq(s, 1, Len(s) - 1)) ELSE s

\* s.count(".")
CountDot(s) == Cardinality({i \in 1..Len(s) : s[i] = "."})

\* s.replace(old, new), old non-empty: leftmost non-overlapping occurrences.
RECURSIVE Replace(_, _, _)
Replace(s, old, new) ==
  IF s = <<>> THEN <<>>
  ELSE IF StartsWith(s, old) THEN new \o Replace(SubSeq(s, Len(old) + 1, Len(s)), old, new)
  ELSE <<s[1]>> \o Replace(Tail(s), old, new)

\* s.split("."): the list of the parts between the dots (never empty).
RECURSIVE SplitDot(_)
SplitDot(s) ==
  IF \A i \in 1..Len(s) : s[i] # "." THEN <<s>>
  ELSE LET i == CHOOSE j \in 1..Len(s) : s[j] = "." /\ \A h \in 1..(j - 1) : s[h] # "."
       IN <<SubSeq(s, 1, i - 1)>> \o SplitDot(SubSeq(s, i + 1, Len(s)))

\* c.lower()
LowerChar(c) ==
  IF c \in Range(UpperChars)
  THEN LowerChars[CHOOSE i \in 1..26 : UpperChars[i] = c]
  ELSE c

\* c.upper()
UpperChar(c) ==
  IF c \in Range(LowerChars)
  THEN UpperChars[CHOOSE i \in 1..26 : LowerChars[i] = c]
  ELSE c

\* str(n) for an integer n.
RECURSIVE NatStr(_)
NatStr(n) == IF n < 10 THEN <<DigitChars[n + 1]>>
             ELSE NatStr(n \div 10) \o <<DigitChars[(n % 10) + 1]>>

IntStr(n) == IF n < 0 THEN <<"-">> \o NatStr(0 - n) ELSE NatStr(n)

(***************************************************************************)
(* Rationals <<num, den>>, den > 0.                                        *)
(***************************************************************************)
Rat(a, b) == <<a, b>>
RatAdd(p, q) == <<p[1] * q[2] + q[1] * p[2], p[2] * q[2]>>
RatMul(p, q) == <<p[1] * q[1], p[2] * q[2]>>
RatLeq(p, q) == p[1] * q[2] <= q[1] * p[2]
RatLess(p, q) == p[1] * q[2] < q[1] * p[2]
RatEq(p, q) == p[1] * q[2] = q[1] * p[2]

(***************************************************************************)
(* JSON values as json.loads returns them.  Every value has the same       *)
(* fields: t the type, n the number (or 1/0 for a bool), s the string,     *)
(* kv the (key, value) items of an object in insertion order, el the       *)
(* elements of an array.                                                   *)
(***************************************************************************)
JNull    == [t |-> "null",   n |-> 0, s |-> <<>>, kv |-> <<>>, el |-> <<>>]
JBool(b) == [t |-> "bool",   n |-> IF b THEN 1 ELSE 0, s |-> <<>>, kv |-> <<>>, el |-> <<>>]
JNum(i)  == [t |-> "number", n |-> i, s |-> <<>>, kv |-> <<>>, el |-> <<>>]
JStr(x)  == [t |-> "string", n |-> 0, s |-> x,    kv |-> <<>>, el |-> <<>>]
JArr(e)  == [t |-> "array",  n |-> 0, s |-> <<>>, kv |-> <<>>, el |-> e]
JObj(m)  == [t |-> "object", n |-> 0, s |-> <<>>, kv |-> m,    el |-> <<>>]
KV(key, val) == [k |-> key, v |-> val]

IsContainer(v) == v.t \in {"object", "array"}

\* d.get(key) on a dict: the value, or None.
DictHas(d, key) == \E i \in 1..Len(d.kv) : d.kv[i].k = key
DictGet(d, key) ==
  IF DictHas(d, key)
  THEN d.kv[CHOOSE i \in 1..Len(d.kv) : d.kv[i].k = key].v
  ELSE JNull

(***************************************************************************)
(* CatagorisingJSON.py                                                     *)
(***************************************************************************)
type_of(v) == v.t

Pair(key, tp) == [k |-> key, t |-> tp]

\* The array branch's merge (lines 44-49): a pair is kept when its keypath was
\* not produced before by an element of this array.
RECURSIVE MergeSampled(_, _, _)
MergeSampled(pairs, out, paths_seen) ==
  IF pairs = <<>> THEN out
  ELSE IF pairs[1].k \in paths_seen
       THEN MergeSampled(Tail(pairs), out, paths_seen)
       ELSE MergeSampled(Tail(pairs), Append(out, pairs[1]), paths_seen \cup {pairs[1].k})

SampleN == 3

Min(a, b) == IF a <= b THEN a ELSE b
Max(a, b) == IF a >= b THEN a ELSE b

RECURSIVE flatten_json(_, _)
flatten_json(d, prefix) ==
  LET t == type_of(d) IN
  IF t \in {"string", "number", "bool", "null"}
  THEN <<Pair(RStripDot(prefix), t)>>
  ELSE IF t = "object"
  THEN LET base == IF prefix = <<>> THEN <<>> ELSE prefix \o <<".">>
           RECURSIVE Items(_)
           Items(i) == IF i > Len(d.kv) THEN <<>>
                       ELSE flatten_json(d.kv[i].v, base \o d.kv[i].k) \o Items(i + 1)
       IN Items(1)
  ELSE IF t = "array"
  THEN LET arr_path == prefix \o <<"[", "]">>
           N == Min(SampleN, Len(d.el))
           RECURSIVE Sampled(_)
           Sampled(i) == IF i > N THEN <<>>
                         ELSE flatten_json(d.el[i], arr_path) \o Sampled(i + 1)
       IN MergeSampled(Sampled(1), <<Pair(RStripDot(arr_path), "array")>>, {})
  ELSE <<Pair(RStripDot(prefix), "unknown")>>

\* A Counter: the (type, count) entries in insertion order.
CounterAdd(cnt, tp) ==
  IF \E i \in 1..Len(cnt) : cnt[i].t = tp
  THEN [i \in 1..Len(cnt) |-> IF cnt[i].t = tp THEN [cnt[i] EXCEPT !.c = @ + 1] ELSE cnt[i]]
  ELSE Append(cnt, [t |-> tp, c |-> 1])

\* Counter.most_common(1)[0][0]: the first entry, in insertion order, of the
\* highest count.
most_common1(cnt) ==
  cnt[CHOOSE i \in 1..Len(cnt) :
        /\ \A j \in 1..Len(cnt) : cnt[j].c <= cnt[i].c
        /\ \A j \in 1..(i - 1) : cnt[j].c < cnt[i].c].t

\* The Counter of the types of keypath k in a list of pairs.
RECURSIVE TypeCounts(_, _)
TypeCounts(pairs, key) ==
  IF pairs = <<>> THEN <<>>
  ELSE LET rest == TypeCounts(SubSeq(pairs, 1, Len(pairs) - 1), key)
           last == pairs[Len(pairs)]
       IN IF last.k = key THEN CounterAdd(rest, last.t) ELSE rest

build_signature(d) ==
  LET pairs == flatten_json(d, <<>>)
      key_set == {pairs[i].k : i \in 1..Len(pairs)} \ {<<>>}
  IN [key_set |-> key_set,
      type_counter |-> [key \in key_set |-> TypeCounts(pairs, key)]]

\* A variant of jaccard_distance: the similarity |a & b| / |a | b|.
jaccard_similarity(a, b) ==
  IF a = {} /\ b = {} THEN Rat(0, 1)
  ELSE Rat(Cardinality(a \cap b), Cardinality(a \cup b))

jaccard_distance(a, b) ==
  IF a = {} /\ b = {} THEN Rat(0, 1)
  ELSE LET inter == Cardinality(a \cap b)
           union == Cardinality(a \cup b)
       IN Rat(union - inter, union)

\* A variant of type_mismatch_penalty: the share of the common keys whose
\* dominant types agree.
type_match_share(a_types, b_types) ==
  LET overlap == DOMAIN a_types \cap DOMAIN b_types
      matches == Cardinality({key \in overlap :
                       most_common1(a_types[key]) = most_common1(b_types[key])})
  IN IF overlap = {} THEN Rat(0, 1)
     ELSE Rat(matches, Max(1, Cardinality(overlap)))

type_mismatch_penalty(a_types, b_types) ==
  LET overlap == DOMAIN a_types \cap DOMAIN b_types
      mismatches == Cardinality({key \in overlap :
                       most_common1(a_types[key]) # most_common1(b_types[key])})
  IN IF overlap = {} THEN Rat(0, 1)
     ELSE Rat(mismatches, Max(1, Cardinality(overlap)))

PenaltyWeight == Rat(3, 10)

\* D[i][j] of pairwise_distance, i and j 1-based positions in signatures.
pairwise_distance(signatures) ==
  [i \in 1..Len(signatures) |-> [j \in 1..Len(signatures) |->
     IF i = j THEN Rat(0, 1)
     ELSE RatAdd(jaccard_distance(signatures[i].key_set, signatures[j].key_set),
                 RatMul(PenaltyWeight,
                        type_mismatch_penalty(signatures[Min(i, j)].type_counter,
                                              signatures[Max(i, j)].type_counter)))]]


(***************************************************************************)
(* DBSCAN(eps, min_samples, metric="precomputed").fit(D).labels_           *)
(* (line 108).  The neighbourhood of a point holds the points at distance  *)
(* <= eps, itself included, in index order; a point is core when its       *)
(* neighbourhood has at least min_samples points; the points are visited   *)
(* in index order and a cluster grows from an unlabelled core point by a   *)
(* depth-first walk that labels every unlabelled point it pops and pushes  *)
(* the unlabelled neighbours of the core points only.  Labels are 0, 1, .. *)
(* in the order the clusters are found; -1 is noise.                       *)
(***************************************************************************)
Neighborhoods(D, eps) ==
  [i \in 1..Len(D) |-> SelectSeq([j \in 1..Len(D) |-> j], LAMBDA j : RatLeq(D[i][j], eps))]

RECURSIVE DbscanExpand(_, _, _, _, _, _)
DbscanExpand(labels, i, stack, label_num, is_core, neigh) ==
  LET labels1 == IF labels[i] = -1 THEN [labels EXCEPT ![i] = label_num] ELSE labels
      pushed == IF labels[i] = -1 /\ is_core[i]
                THEN SelectSeq(neigh[i], LAMBDA v : labels1[v] = -1)
                ELSE <<>>
      stack1 == stack \o pushed
  IN IF stack1 = <<>> THEN labels1
     ELSE DbscanExpand(labels1, stack1[Len(stack1)], SubSeq(stack1, 1, Len(stack1) - 1),
                       label_num, is_core, neigh)

\* A variant of DbscanInner: only the first core point found grows a cluster.
RECURSIVE DbscanFirstOnly(_, _, _, _, _)
DbscanFirstOnly(labels, i, label_num, is_core, neigh) ==
  IF i > Len(labels) THEN labels
  ELSE IF ~is_core[i]
       THEN DbscanFirstOnly(labels, i + 1, label_num, is_core, neigh)
       ELSE DbscanExpand(labels, i, <<>>, label_num, is_core, neigh)

RECURSIVE DbscanInner(_, _, _, _, _)
DbscanInner(labels, i, label_num, is_core, neigh) ==
  IF i > Len(labels) THEN labels
  ELSE IF labels[i] # -1 \/ ~is_core[i]
       THEN DbscanInner(labels, i + 1, label_num, is_core, neigh)
       ELSE DbscanInner(DbscanExpand(labels, i, <<>>, label_num, is_core, neigh),
                        i + 1, label_num + 1, is_core, neigh)

DBSCAN(D, eps, min_samples) ==
  LET neigh == Neighborhoods(D, eps)
      is_core == [i \in 1..Len(D) |-> Len(neigh[i]) >= min_samples]
  IN DbscanInner([i \in 1..Len(D) |-> -1], 1, 0, is_core, neigh)

\* clusters (lines 109-111): label -> the indices of that label, the labels in
\* the order of their first record.
RECURSIVE ClustersOf(_, _)
ClustersOf(labels, idx) ==
  IF idx > Len(labels) THEN <<>>
  ELSE IF \E j \in 1..(idx - 1) : labels[j] = labels[idx]
       THEN ClustersOf(labels, idx + 1)
       ELSE <<[lab |-> labels[idx],
               idxs |-> SelectSeq([j \in 1..Len(labels) |-> j - 1],
                                  LAMBDA j : labels[j + 1] = labels[idx])]>>
            \o ClustersOf(labels, idx + 1)

cluster_json_objects(objs, eps, min_samples) ==
  LET signatures == [i \in 1..Len(objs) |-> build_signature(objs[i])]
      D == pairwise_distance(signatures)
      labels == DBSCAN(D, eps, min_samples)
  IN [labels |-> labels, clusters |-> ClustersOf(labels, 1), signatures |-> signatures]

get_example_at_path(d, keypath) ==
  LET parts == SplitDot(keypath)
      RECURSIVE Walk(_, _)
      Walk(cur, i) ==
        IF i > Len(parts) THEN cur
        ELSE LET p == parts[i] IN
             IF EndsWith(p, <<"[", "]">>)
             THEN LET nxt == IF cur.t = "object"
                             THEN DictGet(cur, SubSeq(p, 1, Len(p) - 2))
                             ELSE JNull
                  IN IF nxt.t = "array" /\ nxt.el # <<>>
                     THEN Walk(nxt.el[1], i + 1)
                     ELSE JNull
             ELSE IF cur.t = "object" THEN Walk(DictGet(cur, p), i + 1)
             ELSE JNull
  IN Walk(d, 1)

\* sorted(keys): the keys in increasing string order.
RECURSIVE SortedKeys(_)
SortedKeys(S) ==
  IF S = {} THEN <<>>
  ELSE LET m == CHOOSE x \in S : \A y \in S \ {x} : StrLess(x, y)
       IN <<m>> \o SortedKeys(S \ {m})

\* example_values (lines 134-138) after the records indices[from..] : the
\* first record, in group order, that has keypath key among its pairs and
\* whose value there is no dict and no list fixes the example (None included).
RECURSIVE ExampleOf(_, _, _, _)
ExampleOf(objs, indices, from, key) ==
  IF from > Len(indices) THEN [set |-> FALSE, v |-> JNull]
  ELSE LET obj == objs[indices[from] + 1]
           pairs == flatten_json(obj, <<>>)
           v == get_example_at_path(obj, key)
       IN IF (\E j \in 1..Len(pairs) : pairs[j].k = key) /\ ~IsContainer(v)
          THEN [set |-> TRUE, v |-> v]
          ELSE ExampleOf(objs, indices, from + 1, key)

RECURSIVE ConcatPairs(_, _, _)
ConcatPairs(objs, indices, from) ==
  IF from > Len(indices) THEN <<>>
  ELSE flatten_json(objs[indices[from] + 1], <<>>) \o ConcatPairs(objs, indices, from + 1)

\* The schema is the list of its entries in sorted keypath order (a dict
\* filled in that order, lines 140-146).
infer_schema(objs, indices) ==
  LET n == Len(indices)
      all == ConcatPairs(objs, indices, 1)
      keys == {all[j].k : j \in 1..Len(all)} \ {<<>>}
      field_counts == [key \in keys |->
          Cardinality({i \in 1..n :
             LET pairs == flatten_json(objs[indices[i] + 1], <<>>)
             IN \E j \in 1..Len(pairs) : pairs[j].k = key})]
      sorted == SortedKeys(keys)
  IN [i \in 1..Len(sorted) |->
        [k |-> sorted[i],
         presence |-> Rat(field_counts[sorted[i]], n),
         types |-> TypeCounts(all, sorted[i]),
         example |-> ExampleOf(objs, indices, 1, sorted[i]).v]]

RECURSIVE RatSum(_)
RatSum(rs) == IF rs = <<>> THEN Rat(0, 1) ELSE RatAdd(rs[1], RatSum(Tail(rs)))

DepthThreshold == 3
DriftThreshold == Rat(15, 100)
PresenceThreshold == Rat(7, 10)

\* A variant of recommend_storage: NoSQL from a depth above 3 only.
recommend_storage_deeper(schema) ==
  LET presence == [i \in 1..Len(schema) |-> schema[i].presence]
      avg_presence == IF presence # <<>>
                      THEN RatMul(RatSum(presence), Rat(1, Len(presence)))
                      ELSE Rat(1, 1)
      array_fields == SelectSeq(schema, LAMBDA e : Contains(e.k, <<"[", "]">>))
      max_depth == IF schema = <<>> THEN 0
                   ELSE CHOOSE m \in {CountDot(schema[i].k) : i \in 1..Len(schema)} :
                          \A i \in 1..Len(schema) : CountDot(schema[i].k) <= m
      type_drift == Rat(Cardinality({i \in 1..Len(schema) : Len(schema[i].types) > 1}),
                        Max(1, Len(schema)))
  IN IF \/ array_fields # <<>>
        \/ max_depth > DepthThreshold
        \/ RatLess(DriftThreshold, type_drift)
        \/ RatLess(avg_presence, PresenceThreshold)
     THEN "NoSQL"
     ELSE "SQL"

\* A variant of recommend_storage: an array keypath alone does not give NoSQL.
recommend_storage_without_arrays(schema) ==
  LET presence == [i \in 1..Len(schema) |-> schema[i].presence]
      avg_presence == IF presence # <<>>
                      THEN RatMul(RatSum(presence), Rat(1, Len(presence)))
                      ELSE Rat(1, 1)
      array_fields == SelectSeq(schema, LAMBDA e : Contains(e.k, <<"[", "]">>))
      max_depth == IF schema = <<>> THEN 0
                   ELSE CHOOSE m \in {CountDot(schema[i].k) : i \in 1..Len(schema)} :
                          \A i \in 1..Len(schema) : CountDot(schema[i].k) <= m
      type_drift == Rat(Cardinality({i \in 1..Len(schema) : Len(schema[i].types) > 1}),
                        Max(1, Len(schema)))
  IN IF \/ FALSE
        \/ max_depth >= DepthThreshold
        \/ RatLess(DriftThreshold, type_drift)
        \/ RatLess(avg_presence, PresenceThreshold)
     THEN "NoSQL"
     ELSE "SQL"

recommend_storage(schema) ==
  LET presence == [i \in 1..Len(schema) |-> schema[i].presence]
      avg_presence == IF presence # <<>>
                      THEN RatMul(RatSum(presence), Rat(1, Len(presence)))
                      ELSE Rat(1, 1)
      array_fields == SelectSeq(schema, LAMBDA e : Contains(e.k, <<"[", "]">>))
      max_depth == IF schema = <<>> THEN 0
                   ELSE CHOOSE m \in {CountDot(schema[i].k) : i \in 1..Len(schema)} :
                          \A i \in 1..Len(schema) : CountDot(schema[i].k) <= m
      type_drift == Rat(Cardinality({i \in 1..Len(schema) : Len(schema[i].types) > 1}),
                        Max(1, Len(schema)))
  IN IF \/ array_fields # <<>>
        \/ max_depth >= DepthThreshold
        \/ RatLess(DriftThreshold, type_drift)
        \/ RatLess(avg_presence, PresenceThreshold)
     THEN "NoSQL"
     ELSE "SQL"


\* hints (lines 229-235): root, lower-cased -> entity name.
Hints ==
  << <<<<"u","s","e","r">>, <<"U","s","e","r">>>>,
     <<<<"p","e","r","s","o","n">>, <<"P","e","r","s","o","n">>>>,
     <<<<"c","u","s","t","o","m","e","r">>, <<"C","u","s","t","o","m","e","r">>>>,
     <<<<"o","r","d","e","r">>, <<"O","r","d","e","r">>>>,
     <<<<"i","t","e","m">>, <<"I","t","e","m">>>>,
     <<<<"p","r","o","d","u","c","t">>, <<"P","r","o","d","u","c","t">>>>,
     <<<<"s","e","n","s","o","r">>, <<"S","e","n","s","o","r","R","e","a","d","i","n","g">>>>,
     <<<<"r","e","a","d","i","n","g">>, <<"S","e","n","s","o","r","R","e","a","d","i","n","g">>>>,
     <<<<"e","v","e","n","t">>, <<"E","v","e","n","t">>>>,
     <<<<"l","o","g">>, <<"L","o","g">>>>,
     <<<<"t","r","a","n","s","a","c","t","i","o","n">>,
       <<"T","r","a","n","s","a","c","t","i","o","n">>>>,
     <<<<"i","m","a","g","e">>, <<"I","m","a","g","e","M","e","t","a">>>>,
     <<<<"v","i","d","e","o">>, <<"V","i","d","e","o","M","e","t","a">>>>,
     <<<<"m","e","d","i","a">>, <<"M","e","d","i","a","M","e","t","a">>>> >>

\* s.lower()
Lower(s) == [i \in 1..Len(s) |-> LowerChar(s[i])]

\* s.capitalize()
Capitalize(s) == [i \in 1..Len(s) |-> IF i = 1 THEN UpperChar(s[i]) ELSE LowerChar(s[i])]

\* list(dict.fromkeys(names))
RECURSIVE Unique(_)
Unique(names) ==
  IF names = <<>> THEN <<>>
  ELSE LET rest == Unique(SubSeq(names, 1, Len(names) - 1))
           last == names[Len(names)]
       IN IF last \in Range(rest) THEN rest ELSE Append(rest, last)

\* Counter(roots).most_common(n): the distinct roots by decreasing count,
\* equal counts in the order of first occurrence.
RECURSIVE MostCommon(_, _, _)
MostCommon(distinct, roots, n) ==
  IF n = 0 \/ distinct = <<>> THEN <<>>
  ELSE LET cnt(r) == Cardinality({i \in 1..Len(roots) : roots[i] = r})
           b == CHOOSE i \in 1..Len(distinct) :
                  /\ \A j \in 1..Len(distinct) : cnt(distinct[j]) <= cnt(distinct[i])
                  /\ \A j \in 1..(i - 1) : cnt(distinct[j]) < cnt(distinct[i])
       IN <<distinct[b]>>
          \o MostCommon(SelectSeq(distinct, LAMBDA r : r # distinct[b]), roots, n - 1)

MaxNames == 3

propose_entity_names(schema) ==
  LET roots == [i \in 1..Len(schema) |->
                  Replace(SplitDot(schema[i].k)[1], <<"[", "]">>, <<>>)]
      common == MostCommon(Unique(roots), roots, MaxNames)
      names == [i \in 1..Len(common) |->
                  IF \E h \in 1..Len(Hints) : Hints[h][1] = Lower(common[i])
                  THEN Hints[CHOOSE h \in 1..Len(Hints) : Hints[h][1] = Lower(common[i])][2]
                  ELSE Capitalize(common[i])]
  IN IF names = <<>> THEN <<<<"E","n","t","i","t","y">>>> ELSE Unique(names)

EpsDefault == Rat(35, 100)
MinSamplesDefault == 2

\* One entry of result (lines 203-208, 212-217); name is the dict key:
\* <<"cluster_single_", i>> or <<"cluster_", lab>>.
GroupOf(objs, name, idxs) ==
  LET schema == infer_schema(objs, idxs)
  IN [name |-> name,
      indices |-> idxs,
      schema |-> schema,
      storage |-> recommend_storage(schema),
      proposed_entities |-> propose_entity_names(schema)]

\* The loop of categorize_and_model (lines 197-217) over clusters.items().
RECURSIVE ResultOf(_, _, _)
ResultOf(objs, clusters, c) ==
  IF c > Len(clusters) THEN <<>>
  ELSE (IF clusters[c].lab = -1
        THEN [i \in 1..Len(clusters[c].idxs) |->
                GroupOf(objs, <<"cluster_single_", clusters[c].idxs[i]>>,
                        <<clusters[c].idxs[i]>>)]
        ELSE <<GroupOf(objs, <<"cluster_", clusters[c].lab>>, clusters[c].idxs)>>)
       \o ResultOf(objs, clusters, c + 1)

\* A variant of categorize_and_model: the records labelled -1 get no group.
categorize_without_noise(json_objects) ==
  LET cl == cluster_json_objects(json_objects, EpsDefault, MinSamplesDefault)
  IN [labels |-> cl.labels,
      result |-> ResultOf(json_objects, SelectSeq(cl.clusters, LAMBDA c : c.lab # -1), 1)]

categorize_and_model(json_objects) ==
  LET cl == cluster_json_objects(json_objects, EpsDefault, MinSamplesDefault)
  IN [labels |-> cl.labels, result |-> ResultOf(json_objects, cl.clusters, 1)]


(***************************************************************************)
(* json.dumps(obj, ensure_ascii=False) and json.loads, character by        *)
(* character: the separators are ", " and ": ", a string is quoted and its *)
(* quote, backslash and newline characters are escaped.                    *)
(***************************************************************************)
RECURSIVE EscapeStr(_)
EscapeStr(s) ==
  IF s = <<>> THEN <<>>
  ELSE (IF s[1] = "\"" THEN <<"\\", "\"">>
        ELSE IF s[1] = "\\" THEN <<"\\", "\\">>
        ELSE IF s[1] = "\n" THEN <<"\\", "n">>
        ELSE <<s[1]>>) \o EscapeStr(Tail(s))

Quoted(s) == <<"\"">> \o EscapeStr(s) \o <<"\"">>

RECURSIVE json_dumps(_)
json_dumps(v) ==
  IF v.t = "null" THEN <<"n", "u", "l", "l">>
  ELSE IF v.t = "bool" THEN (IF v.n = 1 THEN <<"t", "r", "u", "e">>
                             ELSE <<"f", "a", "l", "s", "e">>)
  ELSE IF v.t = "number" THEN IntStr(v.n)
  ELSE IF v.t = "string" THEN Quoted(v.s)
  ELSE IF v.t = "array"
  THEN LET RECURSIVE Els(_)
           Els(i) == IF i > Len(v.el) THEN <<>>
                     ELSE (IF i > 1 THEN <<",", " ">> ELSE <<>>)
                          \o json_dumps(v.el[i]) \o Els(i + 1)
       IN <<"[">> \o Els(1) \o <<"]">>
  ELSE LET RECURSIVE Items(_)
           Items(i) == IF i > Len(v.kv) THEN <<>>
                       ELSE (IF i > 1 THEN <<",", " ">> ELSE <<>>)
                            \o Quoted(v.kv[i].k) \o <<":", " ">>
                            \o json_dumps(v.kv[i].v) \o Items(i + 1)
       IN <<"{">> \o Items(1) \o <<"}">>

\* The parser returns [v |-> the value, j |-> the position after it].
RECURSIVE SkipWs(_, _)
SkipWs(s, i) == IF i <= Len(s) /\ s[i] \in {" ", "\n"} THEN SkipWs(s, i + 1) ELSE i

RECURSIVE ParseStrBody(_, _, _)
ParseStrBody(s, i, acc) ==
  IF s[i] = "\"" THEN [v |-> acc, j |-> i + 1]
  ELSE IF s[i] = "\\"
       THEN ParseStrBody(s, i + 2, Append(acc, IF s[i + 1] = "n" THEN "\n" ELSE s[i + 1]))
       ELSE ParseStrBody(s, i + 1, Append(acc, s[i]))

RECURSIVE ParseDigits(_, _, _)
ParseDigits(s, i, acc) ==
  IF i <= Len(s) /\ s[i] \in Range(DigitChars)
  THEN ParseDigits(s, i + 1, 10 * acc + ((CHOOSE d \in 1..10 : DigitChars[d] = s[i]) - 1))
  ELSE [v |-> acc, j |-> i]

RECURSIVE ParseValue(_, _)
ParseValue(s, i0) ==
  LET i == SkipWs(s, i0) IN
  IF s[i] = "n" THEN [v |-> JNull, j |-> i + 4]
  ELSE IF s[i] = "t" THEN [v |-> JBool(TRUE), j |-> i + 4]
  ELSE IF s[i] = "f" THEN [v |-> JBool(FALSE), j |-> i + 5]
  ELSE IF s[i] = "\"" THEN LET r == ParseStrBody(s, i + 1, <<>>)
                           IN [v |-> JStr(r.v), j |-> r.j]
  ELSE IF s[i] = "-" THEN LET r == ParseDigits(s, i + 1, 0)
                          IN [v |-> JNum(0 - r.v), j |-> r.j]
  ELSE IF s[i] = "["
  THEN LET RECURSIVE Els(_, _)
           Els(k, acc) ==
             LET r == ParseValue(s, k)
                 n == SkipWs(s, r.j)
             IN IF s[n] = "," THEN Els(n + 1, Append(acc, r.v))
                ELSE [v |-> JArr(Append(acc, r.v)), j |-> n + 1]
           f == SkipWs(s, i + 1)
       IN IF s[f] = "]" THEN [v |-> JArr(<<>>), j |-> f + 1] ELSE Els(f, <<>>)
  ELSE IF s[i] = "{"
  THEN LET RECURSIVE Items(_, _)
           Items(k, acc) ==
             LET key == ParseStrBody(s, SkipWs(s, k) + 1, <<>>)
                 r == ParseValue(s, SkipWs(s, key.j) + 1)
                 n == SkipWs(s, r.j)
                 \* a repeated key keeps its place and takes the last value
                 put == IF \E h \in 1..Len(acc) : acc[h].k = key.v
                        THEN [h \in 1..Len(acc) |->
                                IF acc[h].k = key.v THEN KV(key.v, r.v) ELSE acc[h]]
                        ELSE Append(acc, KV(key.v, r.v))
             IN IF s[n] = "," THEN Items(n + 1, put)
                ELSE [v |-> JObj(put), j |-> n + 1]
           f == SkipWs(s, i + 1)
       IN IF s[f] = "}" THEN [v |-> JObj(<<>>), j |-> f + 1] ELSE Items(f, <<>>)
  ELSE LET r == ParseDigits(s, i, 0) IN [v |-> JNum(r.v), j |-> r.j]

json_loads(s) == ParseValue(s, 1).v

(***************************************************************************)
(* Save_Classified_File.py                                                 *)
(***************************************************************************)
IdentChars == Range(UpperChars) \cup Range(LowerChars) \cup Range(DigitChars) \cup {"_"}

safe_ident(name) ==
  LET subbed == [i \in 1..Len(name) |-> IF name[i] \in IdentChars THEN name[i] ELSE "_"]
      fixed == IF subbed = <<>> \/ subbed[1] \in Range(DigitChars)
               THEN <<"t", "_">> \o subbed
               ELSE subbed
  IN Lower(fixed)

map_type(t) ==
  IF t = "number" THEN "REAL"
  ELSE IF t = "string" THEN "TEXT"
  ELSE IF t = "bool" THEN "INTEGER"
  ELSE IF t = "null" THEN "TEXT"
  ELSE IF t = "unknown" THEN "TEXT"
  ELSE "TEXT"


(***************************************************************************)
(* The SQLite database the code writes through sqlite3: a list of tables   *)
(* [name, cols, rows] in creation order, cols the [name, type] columns in  *)
(* DDL order, a row the list of its values by column (JNull is NULL).  A   *)
(* value                                                                   *)
(* is stored as it was bound; column affinity is not modelled.  Every      *)
(* table of the code has "id INTEGER PRIMARY KEY AUTOINCREMENT" as its     *)
(* first column.  A statement returns [ok, db] (and the rowid).            *)
(***************************************************************************)
ColId == <<"i", "d">>
ColRaw == <<"r", "a", "w", "_", "j", "s", "o", "n">>

HasTable(db, name) == \E i \in 1..Len(db) : db[i].name = name
TableIdx(db, name) == CHOOSE i \in 1..Len(db) : db[i].name = name

ColNames(cols) == [i \in 1..Len(cols) |-> cols[i].name]

HasDuplicates(seq) == \E i, j \in 1..Len(seq) : i < j /\ seq[i] = seq[j]

\* CREATE TABLE IF NOT EXISTS name (cols): nothing when the table exists,
\* "duplicate column name" when two columns have the same name.
SqlCreateTable(db, name, cols) ==
  IF HasTable(db, name) THEN [ok |-> TRUE, db |-> db]
  ELSE IF HasDuplicates(ColNames(cols)) THEN [ok |-> FALSE, db |-> db]
  ELSE [ok |-> TRUE, db |-> Append(db, [name |-> name, cols |-> cols, rows |-> <<>>])]

RowIds(tbl) == {tbl.rows[i][1].n : i \in 1..Len(tbl.rows)}

SetMax(S) == CHOOSE m \in S : \A x \in S : x <= m

\* INSERT INTO name (cols) VALUES (vals).  It fails when the table or a named
\* column does not exist, when the id given is no integer ("datatype
\* mismatch") or is the id of a row ("UNIQUE constraint failed").  A column
\* named twice takes its first value, the id its last; without an id, or
\* with NULL, the row gets the next id after the largest.
SqlInsert(db, name, cols, vals) ==
  IF ~HasTable(db, name) THEN [ok |-> FALSE, db |-> db, rowid |-> 0]
  ELSE
  LET t == TableIdx(db, name)
      tbl == db[t]
      names == ColNames(tbl.cols)
      First(c) == CHOOSE i \in 1..Len(cols) : cols[i] = c /\ \A h \in 1..(i - 1) : cols[h] # c
      Last(c) == CHOOSE i \in 1..Len(cols) : cols[i] = c /\ \A h \in (i + 1)..Len(cols) : cols[h] # c
      given == IF ColId \in Range(cols) THEN vals[Last(ColId)] ELSE JNull
      auto == SetMax(RowIds(tbl) \cup {0}) + 1
      rowid == IF given.t = "null" THEN auto ELSE given.n
      row == [i \in 1..Len(names) |->
                IF names[i] = ColId THEN JNum(rowid)
                ELSE IF names[i] \in Range(cols) THEN vals[First(names[i])]
                ELSE JNull]
  IN IF \/ \E i \in 1..Len(cols) : cols[i] \notin Range(names)
        \/ given.t \notin {"null", "number", "bool"}
        \/ rowid \in RowIds(tbl)
     THEN [ok |-> FALSE, db |-> db, rowid |-> 0]
     ELSE [ok |-> TRUE,
           db |-> [db EXCEPT ![t].rows = Append(@, row)],
           rowid |-> rowid]

\* The value of column col in a row of table tbl.
RowValue(tbl, row, col) == row[CHOOSE i \in 1..Len(tbl.cols) : tbl.cols[i].name = col]

_get_by_keypath(d, keypath) ==
  LET parts == SplitDot(keypath)
      RECURSIVE Walk(_, _)
      Walk(cur, i) ==
        IF i > Len(parts) THEN cur
        ELSE IF cur.t # "object" THEN JNull
        ELSE LET nxt == DictGet(cur, parts[i])
             IN IF nxt.t = "null" THEN JNull ELSE Walk(nxt, i + 1)
  IN Walk(d, 1)

Dot == <<".">>
Underscore == <<"_">>
Brackets == <<"[", "]">>

\* The column of a scalar keypath: safe_ident(key.replace(".", "_")).
ColumnOf(key) == safe_ident(Replace(key, Dot, Underscore))

\* cols of _create_parent_table (lines 55-65) as [name, type] entries.
ParentColumns(schema) ==
  LET scalar == SelectSeq(schema, LAMBDA e : ~Contains(e.k, Brackets))
  IN <<[name |-> ColId, type |-> "INTEGER PRIMARY KEY AUTOINCREMENT"],
       [name |-> ColRaw, type |-> "TEXT"]>>
     \o [i \in 1..Len(scalar) |->
          [name |-> ColumnOf(scalar[i].k),
           type |-> IF scalar[i].types # <<>>
                    THEN map_type(scalar[i].types[1].t)
                    ELSE "TEXT"]]

_create_parent_table(db, table, schema) ==
  SqlCreateTable(db, safe_ident(table), ParentColumns(schema))

\* cols of _create_child_table (lines 76-87).
ChildColumns(parent, array_root, schema) ==
  LET sub == SelectSeq(schema, LAMBDA e : /\ StartsWith(e.k, array_root \o Dot)
                                          /\ ~Contains(e.k, Brackets))
  IN <<[name |-> ColId, type |-> "INTEGER PRIMARY KEY AUTOINCREMENT"],
       [name |-> safe_ident(parent) \o <<"_", "i", "d">>, type |-> "INTEGER"],
       [name |-> ColRaw, type |-> "TEXT"]>>
     \o [i \in 1..Len(sub) |->
          [name |-> safe_ident(Replace(Replace(sub[i].k, array_root \o Dot, <<>>),
                                       Dot, Underscore)),
           type |-> IF sub[i].types # <<>>
                    THEN map_type(sub[i].types[1].t)
                    ELSE "TEXT"]]

ChildTableName(parent, base) == parent \o Underscore \o Replace(base, Dot, Underscore)

_create_child_table(db, parent, array_root, schema) ==
  SqlCreateTable(db,
                 safe_ident(ChildTableName(parent, Replace(array_root, Brackets, <<>>))),
                 ChildColumns(parent, array_root, schema))


\* A variant of _insert_parent: raw_json holds the fields that have a scalar
\* value only.
_insert_parent_scalars_only(db, table, obj, schema) ==
  LET named == SelectSeq(schema, LAMBDA e : /\ ~Contains(e.k, Brackets)
                                            /\ ~IsContainer(_get_by_keypath(obj, e.k)))
      cols == <<ColRaw>> \o [i \in 1..Len(named) |-> ColumnOf(named[i].k)]
      vals == <<JStr(json_dumps(JObj(SelectSeq(obj.kv, LAMBDA f : ~IsContainer(f.v)))))>>
              \o [i \in 1..Len(named) |-> _get_by_keypath(obj, named[i].k)]
  IN SqlInsert(db, safe_ident(table), cols, vals)

\* _insert_parent (lines 95-108): [ok, db, rowid].
_insert_parent(db, table, obj, schema) ==
  LET named == SelectSeq(schema, LAMBDA e : /\ ~Contains(e.k, Brackets)
                                            /\ ~IsContainer(_get_by_keypath(obj, e.k)))
      cols == <<ColRaw>> \o [i \in 1..Len(named) |-> ColumnOf(named[i].k)]
      vals == <<JStr(json_dumps(obj))>>
              \o [i \in 1..Len(named) |-> _get_by_keypath(obj, named[i].k)]
  IN SqlInsert(db, safe_ident(table), cols, vals)

\* The INSERT of one array element (lines 122-137).
InsertChildRow(db, parent, parent_id, child_table, arr_key, el, schema) ==
  LET subs == SelectSeq(schema, LAMBDA e : StartsWith(e.k, arr_key \o Dot))
      sub_key(e) == Replace(e.k, arr_key \o Dot, <<>>)
      named == SelectSeq(subs, LAMBDA e :
                 ~IsContainer(_get_by_keypath(el, Replace(sub_key(e), Brackets, <<>>))))
      cols == <<safe_ident(parent) \o <<"_", "i", "d">>, ColRaw>>
              \o [i \in 1..Len(named) |->
                    safe_ident(Replace(sub_key(named[i]), Dot, Underscore))]
      vals == <<JNum(parent_id), JStr(json_dumps(el))>>
              \o [i \in 1..Len(named) |->
                    _get_by_keypath(el, Replace(sub_key(named[i]), Brackets, <<>>))]
  IN SqlInsert(db, safe_ident(child_table), cols, vals)

\* The rows of one array, from element e on (the loop of line 121).
RECURSIVE InsertElements(_, _, _, _, _, _, _, _)
InsertElements(db, parent, parent_id, child_table, arr_key, arr, e, schema) ==
  IF e > Len(arr) THEN [ok |-> TRUE, db |-> db]
  ELSE LET Rest(r) ==
             IF ~r.ok THEN [ok |-> FALSE, db |-> db]
             ELSE InsertElements(r.db, parent, parent_id, child_table, arr_key, arr,
                                 e + 1, schema)
       IN Rest(InsertChildRow(db, parent, parent_id, child_table, arr_key, arr[e], schema))

\* arrays of _insert_children (line 114).
ArrayRoots(schema) ==
  SortedKeys({SplitDot(schema[i].k)[1] :
                i \in {h \in 1..Len(schema) : Contains(schema[h].k, Brackets)}})

\* _insert_children (lines 114-137) from the a-th array on: [ok, db].
RECURSIVE _insert_children(_, _, _, _, _, _)
_insert_children(db, parent, parent_id, obj, schema, a) ==
  LET arrays == ArrayRoots(schema) IN
  IF a > Len(arrays) THEN [ok |-> TRUE, db |-> db]
  ELSE LET arr_key == arrays[a]
           base == Replace(arr_key, Brackets, <<>>)
           Rest(r) ==
             IF ~r.ok THEN [ok |-> FALSE, db |-> db]
             ELSE _insert_children(r.db, parent, parent_id, obj, schema, a + 1)
           Elements(arr) ==
             IF arr.t # "array" THEN [ok |-> TRUE, db |-> db]
             ELSE InsertElements(db, parent, parent_id, ChildTableName(parent, base),
                                 arr_key, arr.el, 1, schema)
       IN Rest(Elements(_get_by_keypath(obj, base)))

\* The child tables of save_json_sqlite (lines 160-162), from the c-th
\* keypath of sorted(schema.keys()) on.
RECURSIVE CreateChildTables(_, _, _, _)
CreateChildTables(db, parent, schema, c) ==
  IF c > Len(schema) THEN [ok |-> TRUE, db |-> db]
  ELSE IF EndsWith(schema[c].k, Brackets)
       THEN LET Rest(r) == IF ~r.ok THEN r ELSE CreateChildTables(r.db, parent, schema, c + 1)
            IN Rest(_create_child_table(db, parent, schema[c].k, schema))
       ELSE CreateChildTables(db, parent, schema, c + 1)

\* The insert loop of save_json_sqlite (lines 164-166) from record o on:
\* [ok, db, failed], failed the position in objects of the record whose
\* INSERT raised (0: none).
RECURSIVE InsertRows(_, _, _, _, _)
InsertRows(db, parent, schema, objects, o) ==
  IF o > Len(objects) THEN [ok |-> TRUE, db |-> db, failed |-> 0]
  ELSE LET Rest(c) ==
             IF ~c.ok THEN [ok |-> FALSE, db |-> db, failed |-> o]
             ELSE InsertRows(c.db, parent, schema, objects, o + 1)
           Children(p) ==
             IF ~p.ok THEN [ok |-> FALSE, db |-> db]
             ELSE _insert_children(p.db, parent, p.rowid, objects[o], schema, 1)
       IN Rest(Children(_insert_parent(db, parent, objects[o], schema)))

EntityDefault == <<"e", "n", "t", "i", "t", "y">>

\* save_json_sqlite: [ok, db, failed].  A CREATE TABLE is committed as it is
\* executed (sqlite3 opens a transaction before an INSERT only); the rows
\* are committed together at line 167, and an exception leaves the with
\* block by a rollback of every row of the call.
save_json_sqlite(db, entity_name, schema, objects) ==
  LET parent == safe_ident(IF entity_name # <<>> THEN entity_name ELSE EntityDefault)
      Committed(tables, inserted) ==
        IF ~inserted.ok THEN [ok |-> FALSE, db |-> tables.db, failed |-> inserted.failed]
        ELSE [ok |-> TRUE, db |-> inserted.db, failed |-> 0]
      Inserted(tables) ==
        IF ~tables.ok THEN [ok |-> FALSE, db |-> tables.db, failed |-> 0]
        ELSE Committed(tables, InsertRows(tables.db, parent, schema, objects, 1))
      Created(created) ==
        IF ~created.ok THEN [ok |-> FALSE, db |-> db, failed |-> 0]
        ELSE Inserted(CreateChildTables(created.db, parent, schema, 1))
  IN Created(_create_parent_table(db, parent, schema))

(***************************************************************************)
(* The document store: a list of files [name, content], content the        *)
(* characters written.                                                     *)
(***************************************************************************)
HasFile(files, name) == \E i \in 1..Len(files) : files[i].name = name
FileIdx(files, name) == CHOOSE i \in 1..Len(files) : files[i].name = name

\* open(coll, "a") and one f.write(json.dumps(obj) + "\n") per object.
RECURSIVE JsonLines(_)
JsonLines(objects) ==
  IF objects = <<>> THEN <<>>
  ELSE json_dumps(objects[1]) \o <<"\n">> \o JsonLines(Tail(objects))

CollectionOf(entity_name) ==
  safe_ident(IF entity_name # <<>> THEN entity_name ELSE EntityDefault)
  \o <<".", "j", "s", "o", "n", "l">>

\* A variant of save_json_nosql: the file is opened with "w".
save_json_nosql_truncating(files, entity_name, objects) ==
  LET coll == CollectionOf(entity_name)
  IN IF HasFile(files, coll)
     THEN [files EXCEPT ![FileIdx(files, coll)].content = JsonLines(objects)]
     ELSE Append(files, [name |-> coll, content |-> JsonLines(objects)])

save_json_nosql(files, entity_name, objects) ==
  LET coll == CollectionOf(entity_name)
  IN IF HasFile(files, coll)
     THEN [files EXCEPT ![FileIdx(files, coll)].content = @ \o JsonLines(objects)]
     ELSE Append(files, [name |-> coll, content |-> JsonLines(objects)])


(***************************************************************************)
(* The inputs.  Pool: the records the batches of the clustering are made   *)
(* of.                                                                     *)
(*   1 {"id": 1, "a": "x"}              5 {"a": 1}                         *)
(*   2 {"a": [1, 2, 3]}                 6 {"m": {"x": {"y": {"z": 1}}}}    *)
(*   3 {}                               7 {"a": []}                        *)
(*   4 {"a": "x"}                                                          *)
(***************************************************************************)
Pool ==
  << JObj(<<KV(<<"i","d">>, JNum(1)), KV(<<"a">>, JStr(<<"x">>))>>),
     JObj(<<KV(<<"a">>, JArr(<<JNum(1), JNum(2), JNum(3)>>))>>),
     JObj(<<>>),
     JObj(<<KV(<<"a">>, JStr(<<"x">>))>>),
     JObj(<<KV(<<"a">>, JNum(1))>>),
     JObj(<<KV(<<"m">>, JObj(<<KV(<<"x">>, JObj(<<KV(<<"y">>,
             JObj(<<KV(<<"z">>, JNum(1))>>))>>))>>))>>),
     JObj(<<KV(<<"a">>, JArr(<<>>))>>) >>

\* The lists of at most n elements of the set S.
RECURSIVE SeqsUpTo(_, _)
SeqsUpTo(S, n) ==
  IF n = 0 THEN {<<>>}
  ELSE LET shorter == SeqsUpTo(S, n - 1)
       IN shorter \cup {Append(q, x) : q \in {r \in shorter : Len(r) = n - 1}, x \in S}

Batches == SeqsUpTo(Range(Pool), MaxBatch) \ {<<>>}

\* The non-empty lists of indices of a batch of n records, increasing.
RECURSIVE IndexLists(_)
IndexLists(n) ==
  IF n = 0 THEN {<<>>}
  ELSE IndexLists(n - 1) \cup {Append(q, n - 1) : q \in IndexLists(n - 1)}

\* eps and min_samples of a call of cluster_json_objects (DBSCAN refuses
\* eps <= 0 and min_samples < 1).
EpsValues == {Rat(1, 100), EpsDefault, Rat(1, 1)}
MinSamplesValues == {1, MinSamplesDefault, 3}

(***************************************************************************)
(* SpecCore: one call of a function of CatagorisingJSON.py, or of          *)
(* _create_parent_table on an empty database, on a batch.                  *)
(***************************************************************************)
NoOut == [op |-> "none"]

InitCore ==
  /\ all_objs \in Batches
  /\ ret = NoOut
  /\ store_db = <<>>
  /\ nosql_store = <<>>
  /\ calls = <<>>

Flatten(i) ==
  /\ ret.op = "none"
  /\ ret' = [op |-> "flatten_json", i |-> i, pairs |-> flatten_json(all_objs[i + 1], <<>>)]
  /\ UNCHANGED <<all_objs, store_db, nosql_store, calls>>

Cluster(eps, min_samples) ==
  /\ ret.op = "none"
  /\ LET cl == cluster_json_objects(all_objs, eps, min_samples)
     IN ret' = [op |-> "cluster_json_objects", eps |-> eps, min_samples |-> min_samples,
                labels |-> cl.labels, clusters |-> cl.clusters,
                signatures |-> cl.signatures,
                result |-> ResultOf(all_objs, cl.clusters, 1)]
  /\ UNCHANGED <<all_objs, store_db, nosql_store, calls>>

Categorize ==
  /\ ret.op = "none"
  /\ LET r == categorize_and_model(all_objs)
     IN ret' = [op |-> "categorize_and_model", labels |-> r.labels, result |-> r.result]
  /\ UNCHANGED <<all_objs, store_db, nosql_store, calls>>

TableT == <<"t">>

Model(indices) ==
  /\ ret.op = "none"
  /\ LET schema == infer_schema(all_objs, indices)
         created == _create_parent_table(<<>>, TableT, schema)
     IN ret' = [op |-> "infer_schema", indices |-> indices, schema |-> schema,
                storage |-> recommend_storage(schema),
                created |-> created.ok, tables |-> created.db]
  /\ UNCHANGED <<all_objs, store_db, nosql_store, calls>>

NextCore ==
  \/ \E i \in 0..(Len(all_objs) - 1) : Flatten(i)
  \/ \E eps \in EpsValues, min_samples \in MinSamplesValues : Cluster(eps, min_samples)
  \/ Categorize
  \/ \E indices \in IndexLists(Len(all_objs)) \ {<<>>} : Model(indices)

SpecCore == InitCore /\ [][NextCore]_vars


(***************************************************************************)
(* SpecSqlite, SpecNosql: calls of save_json_sqlite, or of                 *)
(* save_json_nosql, on one store, each with an entity name, records of     *)
(* StorePool and, for save_json_sqlite, the schema that infer_schema gives *)
(* for a group of StorePool (the schema of the records passed, or of other *)
(* records: the schema a table was created from need not be the one of a   *)
(* later call).  A run ends when its calls and the records passed to them  *)
(* number MaxWork, or MaxLines.                                            *)
(*   0 {"a": 1}                  2 {"id": 2, "a": "x"}                     *)
(*   1 {"raw_json": "x\"\n"}     3 {"t": [{"id": 7}, true]}                *)
(***************************************************************************)
StorePool ==
  << JObj(<<KV(<<"a">>, JNum(1))>>),
     JObj(<<KV(ColRaw, JStr(<<"x", "\"", "\n">>))>>),
     JObj(<<KV(<<"i","d">>, JNum(2)), KV(<<"a">>, JStr(<<"x">>))>>),
     JObj(<<KV(<<"t">>, JArr(<<JObj(<<KV(<<"i","d">>, JNum(7))>>), JBool(TRUE)>>))>>) >>

SchemaGroups == {<<0>>, <<1>>, <<2>>, <<3>>}

\* The entity names of the calls of save_json_sqlite, and of save_json_nosql.
Entities == {<<"T">>, <<>>}
Collections == {<<"T">>, <<"t">>, <<>>}

\* The records passed by the calls of a history, in call order.
RECURSIVE ObjectsOf(_)
ObjectsOf(history) ==
  IF history = <<>> THEN <<>> ELSE history[1].objects \o ObjectsOf(Tail(history))

\* The calls made and the records passed to them.
Work(history) == Len(history) + Len(ObjectsOf(history))

\* The lists of records a call can pass before the run ends at max.
ObjectLists(max) == SeqsUpTo(Range(StorePool), Max(0, max - Work(calls) - 1))

\* The parent table of an entity (line 155), and the number of its rows.
ParentOf(entity_name) ==
  safe_ident(IF entity_name # <<>> THEN entity_name ELSE EntityDefault)

RowCount(tables, name) ==
  IF HasTable(tables, name) THEN Len(tables[TableIdx(tables, name)].rows) ELSE 0

\* The lines of a log: the text before each line feed (and what follows the
\* last one, if anything does).
SplitLines(text, line) ==
  LET all == line \o text
      feeds == SelectSeq([i \in 1..Len(all) |-> i], LAMBDA i : all[i] = "\n")
      start(k) == IF k = 1 THEN 1 ELSE feeds[k - 1] + 1
      last == IF feeds = <<>> THEN 0 ELSE feeds[Len(feeds)]
  IN [k \in 1..Len(feeds) |-> SubSeq(all, start(k), feeds[k] - 1)]
     \o (IF last < Len(all) THEN <<SubSeq(all, last + 1, Len(all))>> ELSE <<>>)

LinesOf(files, name) ==
  IF HasFile(files, name) THEN SplitLines(files[FileIdx(files, name)].content, <<>>)
  ELSE <<>>

LineCount(files, name) == Len(LinesOf(files, name))

InitStore ==
  /\ all_objs = <<>>
  /\ ret = NoOut
  /\ store_db = <<>>
  /\ nosql_store = <<>>
  /\ calls = <<>>

SaveSqlite(entity_name, group, objects) ==
  /\ Work(calls) + 1 + Len(objects) <= MaxWork
  /\ \E schema \in {infer_schema(StorePool, group)} :
       \E r \in {save_json_sqlite(store_db, entity_name, schema, objects)} :
          /\ store_db' = r.db
          /\ calls' = Append(calls, [op |-> "save_json_sqlite", entity_name |-> entity_name,
                                     schema |-> schema, objects |-> objects,
                                     ok |-> r.ok, failed |-> r.failed,
                                     added |-> RowCount(r.db, ParentOf(entity_name))
                                               - RowCount(store_db, ParentOf(entity_name))])
  /\ UNCHANGED <<all_objs, ret, nosql_store>>

SaveNosql(entity_name, objects) ==
  /\ Work(calls) + 1 + Len(objects) <= MaxLines
  /\ nosql_store' = save_json_nosql(nosql_store, entity_name, objects)
  /\ calls' = Append(calls, [op |-> "save_json_nosql", entity_name |-> entity_name,
                             schema |-> <<>>, objects |-> objects,
                             ok |-> TRUE, failed |-> 0,
                             added |-> LineCount(nosql_store', CollectionOf(entity_name))
                                       - LineCount(nosql_store, CollectionOf(entity_name))])
  /\ UNCHANGED <<all_objs, ret, store_db>>

NextSqlite ==
  \E entity_name \in Entities, group \in SchemaGroups, objects \in ObjectLists(MaxWork) :
     SaveSqlite(entity_name, group, objects)

NextNosql ==
  \E entity_name \in Collections, objects \in ObjectLists(MaxLines) :
     SaveNosql(entity_name, objects)

SpecSqlite == InitStore /\ [][NextSqlite]_vars

SpecNosql == InitStore /\ [][NextNosql]_vars


(***************************************************************************)
(* SpecChild: calls of save_json_sqlite on one store with records that     *)
(* hold arrays of objects and the schema infer_schema gives for the        *)
(* records passed.                                                         *)
(*   1 {"t": [{"p": 1}]}          3 {"it": [{"id": 1, "t": ["x"]},         *)
(*   2 {"t": [{"id": 7}, true]}             {"id": 2}]}                    *)
(***************************************************************************)
ChildPool ==
  << JObj(<<KV(<<"t">>, JArr(<<JObj(<<KV(<<"p">>, JNum(1))>>)>>))>>),
     JObj(<<KV(<<"t">>, JArr(<<JObj(<<KV(<<"i","d">>, JNum(7))>>), JBool(TRUE)>>))>>),
     JObj(<<KV(<<"i","t">>, JArr(<<
             JObj(<<KV(<<"i","d">>, JNum(1)), KV(<<"t">>, JArr(<<JStr(<<"x">>)>>))>>),
             JObj(<<KV(<<"i","d">>, JNum(2))>>)>>))>>) >>

SaveChild(entity_name, objects) ==
  /\ Work(calls) + 1 + Len(objects) <= MaxWork
  /\ \E schema \in {infer_schema(objects, [i \in 1..Len(objects) |-> i - 1])} :
       \E r \in {save_json_sqlite(store_db, entity_name, schema, objects)} :
          /\ store_db' = r.db
          /\ calls' = Append(calls, [op |-> "save_json_sqlite", entity_name |-> entity_name,
                                     schema |-> schema, objects |-> objects,
                                     ok |-> r.ok, failed |-> r.failed,
                                     added |-> RowCount(r.db, ParentOf(entity_name))
                                               - RowCount(store_db, ParentOf(entity_name))])
  /\ UNCHANGED <<all_objs, ret, nosql_store>>

NextChild ==
  \E entity_name \in Entities :
     \E objects \in SeqsUpTo(Range(ChildPool), Max(0, MaxWork - Work(calls) - 1)) :
        SaveChild(entity_name, objects)

SpecChild == InitStore /\ [][NextChild]_vars


(***************************************************************************)
(* process_json (ProcessingMediaAndJSON.py) on the records loaded from the *)
(* input files, without metadata: the records are clustered and every      *)
(* group is saved (lines 90-105), and then they are clustered and saved    *)
(* again (lines 118-133).  An exception of save_json_sqlite leaves         *)
(* process_json at once.  history is the list of the save calls made.      *)
(***************************************************************************)
EntityFallback == <<"E", "n", "t", "i", "t", "y">>

\* The record of a call of save_json_sqlite that gave r on the database db.
SqliteCall(db, entity_name, schema, objects, r) ==
  [op |-> "save_json_sqlite", entity_name |-> entity_name,
   schema |-> schema, objects |-> objects, ok |-> r.ok, failed |-> r.failed,
   added |-> RowCount(r.db, ParentOf(entity_name)) - RowCount(db, ParentOf(entity_name))]

\* The record of a call of save_json_nosql that turned the files into after.
NosqlCall(files, entity_name, schema, objects, after) ==
  [op |-> "save_json_nosql", entity_name |-> entity_name,
   schema |-> schema, objects |-> objects, ok |-> TRUE, failed |-> 0,
   added |-> LineCount(after, CollectionOf(entity_name))
             - LineCount(files, CollectionOf(entity_name))]

\* The loop over clusters_info.items() (lines 92-105, 120-133) from the g-th
\* group on: [ok, db, files, calls].
RECURSIVE SaveGroups(_, _, _, _, _, _)
SaveGroups(db, files, history, objs, result, g) ==
  IF g > Len(result) THEN [ok |-> TRUE, db |-> db, files |-> files, calls |-> history]
  ELSE LET details == result[g]
           entity == IF details.proposed_entities # <<>>
                     THEN details.proposed_entities[1]
                     ELSE EntityFallback
           batch == [i \in 1..Len(details.indices) |-> objs[details.indices[i] + 1]]
           AfterSql(r) ==
             IF ~r.ok
             THEN [ok |-> FALSE, db |-> r.db, files |-> files,
                   calls |-> Append(history, SqliteCall(db, entity, details.schema, batch, r))]
             ELSE SaveGroups(r.db, files,
                             Append(history, SqliteCall(db, entity, details.schema, batch, r)),
                             objs, result, g + 1)
           AfterNosql(after) ==
             SaveGroups(db, after,
                        Append(history, NosqlCall(files, entity, details.schema, batch, after)),
                        objs, result, g + 1)
       IN IF details.storage = "SQL"
          THEN AfterSql(save_json_sqlite(db, entity, details.schema, batch))
          ELSE AfterNosql(save_json_nosql(files, entity, batch))

process_json(db, files, objs) ==
  LET Again(first) ==
        IF ~first.ok THEN first
        ELSE SaveGroups(first.db, first.files, first.calls, objs,
                        categorize_and_model(objs).result, 1)
  IN Again(SaveGroups(db, files, <<>>, objs, categorize_and_model(objs).result, 1))

(***************************************************************************)
(* SpecPipeline: one call of process_json on a batch of records of Pool    *)
(* and new stores.                                                         *)
(***************************************************************************)
ProcessJson ==
  /\ ret.op = "none"
  /\ \E r \in {process_json(store_db, nosql_store, all_objs)} :
       /\ ret' = [op |-> "process_json", ok |-> r.ok]
       /\ store_db' = r.db
       /\ nosql_store' = r.files
       /\ calls' = r.calls
  /\ UNCHANGED all_objs

NextPipeline == ProcessJson

SpecPipeline == InitCore /\ [][NextPipeline]_vars


(***************************************************************************)
(* SpecOrder: one call of cluster_json_objects on a batch of distinct      *)
(* records in any order.  DBSCAN visits the records in the order of the    *)
(* batch, so the orders of a set of records are its visiting orders.       *)
(*   1 {"a": 1, "b": 1}    2 {"a": 1}    3 {"a": 1, "c": 1}                *)
(*   4 {"a": 1, "d": 1}    5 {"b": 1}    6 {"b": 1, "e": 1}                *)
(*   7 {"b": 1, "f": 1}                                                    *)
(* At eps 0.5 record 1 is within eps of 2 and of 5, 2 of 1, 3, 4 and 5 of  *)
(* 1, 6, 7.                                                                *)
(***************************************************************************)
OrderPool ==
  << JObj(<<KV(<<"a">>, JNum(1)), KV(<<"b">>, JNum(1))>>),
     JObj(<<KV(<<"a">>, JNum(1))>>),
     JObj(<<KV(<<"a">>, JNum(1)), KV(<<"c">>, JNum(1))>>),
     JObj(<<KV(<<"a">>, JNum(1)), KV(<<"d">>, JNum(1))>>),
     JObj(<<KV(<<"b">>, JNum(1))>>),
     JObj(<<KV(<<"b">>, JNum(1)), KV(<<"e">>, JNum(1))>>),
     JObj(<<KV(<<"b">>, JNum(1)), KV(<<"f">>, JNum(1))>>) >>

\* The lists of at most n distinct elements of the set S.
RECURSIVE Orderings(_, _)
Orderings(S, n) ==
  IF n = 0 THEN {<<>>}
  ELSE LET shorter == Orderings(S, n - 1)
       IN shorter \cup UNION {{Append(q, x) : x \in S \ Range(q)} :
                                q \in {r \in shorter : Len(r) = n - 1}}

InitOrder ==
  /\ all_objs \in Orderings(Range(OrderPool), Len(OrderPool)) \ {<<>>}
  /\ ret = NoOut
  /\ store_db = <<>>
  /\ nosql_store = <<>>
  /\ calls = <<>>

\* labels, clusters, signatures of cluster_json_objects (line 112).
ClusterBatch(eps, min_samples) ==
  /\ ret.op = "none"
  /\ \E cl \in {cluster_json_objects(all_objs, eps, min_samples)} :
       ret' = [op |-> "cluster_json_objects", eps |-> eps, min_samples |-> min_samples,
               labels |-> cl.labels, clusters |-> cl.clusters,
               signatures |-> cl.signatures]
  /\ UNCHANGED <<all_objs, store_db, nosql_store, calls>>

NextOrder ==
  \E eps \in {Rat(1, 2)}, min_samples \in {MinSamplesDefault, 3, 4} :
     ClusterBatch(eps, min_samples)

SpecOrder == InitOrder /\ [][NextOrder]_vars


(***************************************************************************)
(* The claims about CatagorisingJSON.py, checked under SpecCore.           *)
(***************************************************************************)
Indices == 0..(Len(all_objs) - 1)

\* Records i and j are in one group of result.
SameGroup(result, i, j) ==
  \E g \in 1..Len(result) : {i, j} \subseteq Range(result[g].indices)

\* Identical keysets and identical dominant type at every keypath.
SameShape(sa, sb) ==
  /\ sa.key_set = sb.key_set
  /\ \A key \in sa.key_set :
       most_common1(sa.type_counter[key]) = most_common1(sb.type_counter[key])

\* The call ran with the default eps and min_samples.
DefaultClustering ==
  \/ ret.op = "categorize_and_model"
  \/ /\ ret.op = "cluster_json_objects"
     /\ ret.eps = EpsDefault
     /\ ret.min_samples = MinSamplesDefault

KeySetOf(i) == build_signature(all_objs[i + 1]).key_set

\* The keyset of record i shares nothing with the keyset of any other record.
SharesNothing(i) == \A j \in Indices \ {i} : KeySetOf(i) \cap KeySetOf(j) = {}

\* C2: the groups that categorize_and_model returns partition the record
\* indices 0..n-1: every index is in the indices of exactly one group, once;
\* a record labelled -1 is the only member of its group; the records of a
\* label other than -1 are together the members of one group.
C2_GroupsPartition ==
  ret.op = "categorize_and_model" =>
    /\ \A i \in Indices :
         Cardinality({gp \in {<<g, p>> : g \in 1..Len(ret.result), p \in 1..MaxBatch + 1} :
                        /\ gp[2] <= Len(ret.result[gp[1]].indices)
                        /\ ret.result[gp[1]].indices[gp[2]] = i}) = 1
    /\ \A g \in 1..Len(ret.result) : Range(ret.result[g].indices) \subseteq Indices
    /\ \A i \in Indices :
         IF ret.labels[i + 1] = -1
         THEN \E g \in 1..Len(ret.result) : ret.result[g].indices = <<i>>
         ELSE \E g \in 1..Len(ret.result) :
                Range(ret.result[g].indices)
                  = {j \in Indices : ret.labels[j + 1] = ret.labels[i + 1]}

\* A batch with a noise record and a cluster of two records.
C2_Witness ==
  /\ ret.op = "categorize_and_model"
  /\ \E i \in Indices : ret.labels[i + 1] = -1
  /\ \E g \in 1..Len(ret.result) : Len(ret.result[g].indices) >= 2

\* C3 as stated: for every eps and min_samples <= batch size, two records of
\* identical keysets and dominant types are never in different groups.
C3_SameShapeSameGroup ==
  (ret.op = "cluster_json_objects" /\ Len(all_objs) >= ret.min_samples) =>
    \A i, j \in Indices :
       SameShape(ret.signatures[i + 1], ret.signatures[j + 1])
         => SameGroup(ret.result, i, j)

\* C3 amended: two such records always get the same label, and they are in
\* one group whenever min_samples <= 2; with a larger min_samples both may
\* be noise, each then its own singleton group.
C3_SameShapeSameLabel ==
  ret.op = "cluster_json_objects" =>
    \A i, j \in Indices :
       SameShape(ret.signatures[i + 1], ret.signatures[j + 1])
         => /\ ret.labels[i + 1] = ret.labels[j + 1]
            /\ (ret.min_samples <= 2 \/ ret.labels[i + 1] # -1)
                 => SameGroup(ret.result, i, j)

\* Two different records of one shape, in one group.
C3_Witness ==
  /\ ret.op = "cluster_json_objects"
  /\ \E i, j \in Indices :
       /\ all_objs[i + 1] # all_objs[j + 1]
       /\ SameShape(ret.signatures[i + 1], ret.signatures[j + 1])
       /\ SameGroup(ret.result, i, j)

\* C4 as stated: with the default eps and min_samples, a record whose keyset
\* shares nothing with the keyset of any other record is labelled -1.
C4_DisjointIsNoise ==
  DefaultClustering =>
    \A i \in Indices : SharesNothing(i) => ret.labels[i + 1] = -1

\* C4 amended: so it is for a record whose keyset is not empty; a record
\* with an empty keyset is labelled -1 exactly when it is the only one of
\* the batch with an empty keyset.
C4_DisjointNonEmptyIsNoise ==
  DefaultClustering =>
    \A i \in Indices :
       /\ (SharesNothing(i) /\ KeySetOf(i) # {}) => ret.labels[i + 1] = -1
       /\ KeySetOf(i) = {} =>
            (ret.labels[i + 1] = -1 <=> \A j \in Indices \ {i} : KeySetOf(j) # {})

\* A record with keys, none shared, beside a cluster of other records.
C4_Witness ==
  /\ DefaultClustering
  /\ \E i \in Indices :
       /\ KeySetOf(i) # {}
       /\ SharesNothing(i)
       /\ ret.labels[i + 1] = -1
  /\ \E j \in Indices : ret.labels[j + 1] # -1


\* The four metrics of a schema, read off its keypaths.
HasArrayKeypath(schema) ==
  \E i \in 1..Len(schema) : \E p \in 1..(Len(schema[i].k) - 1) :
     schema[i].k[p] = "[" /\ schema[i].k[p + 1] = "]"

HasDeepKeypath(schema) ==
  \E i \in 1..Len(schema) :
     \E S \in SUBSET (1..Len(schema[i].k)) :
        Cardinality(S) = 3 /\ \A p \in S : schema[i].k[p] = "."

\* More than 15% of the fields have more than one observed type.
HasTypeDrift(schema) ==
  100 * Cardinality({i \in 1..Len(schema) : Len(schema[i].types) >= 2}) > 15 * Len(schema)

\* The number of (record, field) pairs of a group of n records in which the
\* record has the field: n times the sum of the presence ratios.
RECURSIVE PresentCount(_, _)
PresentCount(schema, n) ==
  IF schema = <<>> THEN 0
  ELSE (schema[1].presence[1] * n) \div schema[1].presence[2]
       + PresentCount(Tail(schema), n)

\* The mean presence ratio is below 0.7.
HasLowPresence(schema, n) ==
  schema # <<>> /\ 10 * PresentCount(schema, n) < 7 * n * Len(schema)

\* C5: recommend_storage returns NoSQL exactly when the schema has a keypath
\* with "[]", or one with at least 3 dots, or type drift above 15%, or a mean
\* presence below 0.7, and SQL otherwise (so for the empty schema).
C5_StorageRule ==
  ret.op = "infer_schema" =>
    /\ ret.storage \in {"SQL", "NoSQL"}
    /\ ret.storage = "NoSQL" <=>
         \/ HasArrayKeypath(ret.schema)
         \/ HasDeepKeypath(ret.schema)
         \/ HasTypeDrift(ret.schema)
         \/ HasLowPresence(ret.schema, Len(ret.indices))
    /\ ret.schema = <<>> => ret.storage = "SQL"

\* A schema that is NoSQL for its array keypath alone.
C5_Witness ==
  /\ ret.op = "infer_schema"
  /\ ret.storage = "NoSQL"
  /\ HasArrayKeypath(ret.schema)
  /\ ~HasDeepKeypath(ret.schema)
  /\ ~HasTypeDrift(ret.schema)
  /\ ~HasLowPresence(ret.schema, Len(ret.indices))

\* C6 as stated: a field of the record that holds an array of scalars gives
\* exactly one pair, (field[], array).
C6_ScalarArrayOnePair ==
  ret.op = "flatten_json" =>
    LET obj == all_objs[ret.i + 1] IN
    \A f \in 1..Len(obj.kv) :
       (/\ obj.kv[f].v.t = "array"
        /\ obj.kv[f].v.el # <<>>
        /\ \A e \in 1..Len(obj.kv[f].v.el) : ~IsContainer(obj.kv[f].v.el[e]))
       => SelectSeq(ret.pairs, LAMBDA pr : StartsWith(pr.k, obj.kv[f].k \o Brackets))
            = <<Pair(obj.kv[f].k \o Brackets, "array")>>

\* The keypaths of a schema without "[]".
ScalarEntries(schema) == SelectSeq(schema, LAMBDA e : ~Contains(e.k, Brackets))

\* C9 as stated: the parent table is created with the columns id, raw_json
\* and one column per keypath without "[]", all of different names.
C9_OneColumnPerKeypath ==
  ret.op = "infer_schema" =>
    /\ ret.created
    /\ Len(ret.tables) = 1
    /\ LET names == ColNames(ret.tables[1].cols) IN
       /\ Len(names) = 2 + Len(ScalarEntries(ret.schema))
       /\ names[1] = ColId
       /\ names[2] = ColRaw
       /\ \A i, j \in 1..Len(names) : i # j => names[i] # names[j]

\* The type of the strictly highest count of a histogram, if there is one.
HasTopType(types) ==
  \E i \in 1..Len(types) : \A j \in 1..Len(types) : j # i => types[j].c < types[i].c
TopType(types) ==
  types[CHOOSE i \in 1..Len(types) : \A j \in 1..Len(types) : j # i => types[j].c < types[i].c].t

\* C10 as stated: the column of a keypath has the SQL type of the most
\* frequent type of its histogram.
C10_ColumnOfTopType ==
  (ret.op = "infer_schema" /\ ret.created) =>
    LET scalar == ScalarEntries(ret.schema) IN
    \A i \in 1..Len(scalar) :
       HasTopType(scalar[i].types) =>
         ret.tables[1].cols[2 + i].type
           = (CASE TopType(scalar[i].types) = "number" -> "REAL"
                [] TopType(scalar[i].types) = "bool" -> "INTEGER"
                [] OTHER -> "TEXT")


(***************************************************************************)
(* The claims about Save_Classified_File.py, checked under SpecSqlite and  *)
(* SpecNosql.                                                              *)
(***************************************************************************)
Occurrences(seq, x) == Cardinality({i \in 1..Len(seq) : seq[i] = x})

\* The records read back from the raw_json column of a table.
RawRecords(tables, name) ==
  IF ~HasTable(tables, name) THEN <<>>
  ELSE LET tbl == tables[TableIdx(tables, name)]
       IN [r \in 1..Len(tbl.rows) |-> json_loads(RowValue(tbl, tbl.rows[r], ColRaw).s)]

\* C1: after any sequence of save_json_sqlite calls, every record passed to
\* a call that returned without error is read back whole from the raw_json
\* column of a row of its parent table, one row for each time it was passed.
C1_RawJsonRoundTrip ==
  \A c \in 1..Len(calls) :
     (calls[c].op = "save_json_sqlite" /\ calls[c].ok) =>
       LET parent == ParentOf(calls[c].entity_name)
           passed == ObjectsOf(SelectSeq(calls, LAMBDA h : /\ h.op = "save_json_sqlite"
                                                           /\ h.ok
                                                           /\ ParentOf(h.entity_name) = parent))
       IN \A o \in 1..Len(calls[c].objects) :
            Occurrences(RawRecords(store_db, parent), calls[c].objects[o])
              >= Occurrences(passed, calls[c].objects[o])

\* A call that returned without error, for a schema with the keypath
\* raw_json, with a record that has a field raw_json and a record with a
\* nested array.
C1_Witness ==
  \E c \in 1..Len(calls) :
     /\ calls[c].op = "save_json_sqlite"
     /\ calls[c].ok
     /\ \E e \in 1..Len(calls[c].schema) : calls[c].schema[e].k = ColRaw
     /\ calls[c].objects = <<StorePool[2], StorePool[4]>>

\* C7 as stated: when the insert of a record raises, the records of the
\* batch before it are rows of the parent table after the call.
C7_FailureKeepsOthers ==
  \A c \in 1..Len(calls) :
     (calls[c].op = "save_json_sqlite" /\ calls[c].failed > 0) =>
       calls[c].added >= calls[c].failed - 1

\* C8: each log holds, line by line, the records of all calls for its
\* collection, in call order and in batch order, each line the JSON text of
\* its record and nothing else.
C8_LogIsConcatenation ==
  /\ \A f \in 1..Len(nosql_store) :
       LET lines == SplitLines(nosql_store[f].content, <<>>)
           passed == ObjectsOf(SelectSeq(calls, LAMBDA h : /\ h.op = "save_json_nosql"
                                                           /\ CollectionOf(h.entity_name)
                                                                = nosql_store[f].name))
       IN /\ Len(lines) = Len(passed)
          /\ \A l \in 1..Len(lines) : json_loads(lines[l]) = passed[l]
          /\ nosql_store[f].content = <<>> \/ nosql_store[f].content[Len(nosql_store[f].content)] = "\n"
  /\ \A c \in 1..Len(calls) :
       calls[c].op = "save_json_nosql" =>
         /\ calls[c].added = Len(calls[c].objects)
         /\ HasFile(nosql_store, CollectionOf(calls[c].entity_name))

\* Two calls for one collection, the second with a record of the first and
\* the same record twice.
C8_Witness ==
  /\ Len(calls) = 2
  /\ calls[1].op = "save_json_nosql"
  /\ calls[2].op = "save_json_nosql"
  /\ CollectionOf(calls[1].entity_name) = CollectionOf(calls[2].entity_name)
  /\ calls[1].objects # <<>>
  /\ calls[2].objects = <<calls[1].objects[1], calls[1].objects[1]>>
  /\ LineCount(nosql_store, CollectionOf(calls[1].entity_name))
       = Len(calls[1].objects) + 2


(***************************************************************************)
(* The claims about the child tables, checked under SpecChild.             *)
(***************************************************************************)
\* The keypaths A[].f of a schema: f a direct scalar subfield of the array
\* A[] under the root.
DirectSubfields(schema) ==
  SelectSeq(schema, LAMBDA e :
     LET parts == SplitDot(e.k)
     IN /\ Len(parts) = 2
        /\ EndsWith(parts[1], Brackets)
        /\ ~Contains(parts[2], Brackets))

\* C11 as stated: after the first call on a new store, the child table of an
\* array A[] has a column for each keypath A[].f of the call's schema, and
\* no child-row INSERT of the call named a column the table lacks.
C11_ChildColumnPerSubfield ==
  Len(calls) = 1 =>
    LET sub == DirectSubfields(calls[1].schema)
        parent == ParentOf(calls[1].entity_name)
    IN /\ \A i \in 1..Len(sub) :
            LET parts == SplitDot(sub[i].k)
                child == safe_ident(ChildTableName(parent, Replace(parts[1], Brackets, <<>>)))
            IN /\ HasTable(store_db, child)
               /\ \E c \in 4..Len(store_db[TableIdx(store_db, child)].cols) :
                     store_db[TableIdx(store_db, child)].cols[c].name = safe_ident(parts[2])
       /\ calls[1].ok


(***************************************************************************)
(* The claim about the examples of infer_schema, checked under SpecCore.   *)
(***************************************************************************)
\* The members of a group, in group order, in which the path key resolves to
\* a scalar.
ResolvingMembers(indices, key) ==
  SelectSeq(indices, LAMBDA i :
     LET v == get_example_at_path(all_objs[i + 1], key)
     IN ~IsContainer(v) /\ v.t # "null")

\* C12 as stated: the example of a keypath is the value at that path in the
\* first member of the group, in group order, in which the path resolves to
\* a scalar; members in which it does not resolve do not fix it.
C12_ExampleFromFirstResolvable ==
  ret.op = "infer_schema" =>
    \A e \in 1..Len(ret.schema) :
       LET res == ResolvingMembers(ret.indices, ret.schema[e].k)
       IN res # <<>> =>
            ret.schema[e].example
              = get_example_at_path(all_objs[res[1] + 1], ret.schema[e].k)


(***************************************************************************)
(* The claims about process_json, checked under SpecPipeline.              *)
(***************************************************************************)
RECURSIVE SumSeq(_)
SumSeq(ns) == IF ns = <<>> THEN 0 ELSE ns[1] + SumSeq(Tail(ns))

\* The number of rows, over all tables, and of log lines, over all logs,
\* that hold the record x.
StoredCopies(x) ==
  SumSeq([t \in 1..Len(store_db) |->
            Occurrences(RawRecords(store_db, store_db[t].name), x)])
  + SumSeq([f \in 1..Len(nosql_store) |->
              Cardinality({l \in 1..LineCount(nosql_store, nosql_store[f].name) :
                             json_loads(LinesOf(nosql_store, nosql_store[f].name)[l]) = x})])

\* C13 as stated: when process_json returns, every record of the batch is
\* stored once: as many rows and log lines hold a record as the batch has
\* copies of it.
C13_EachRecordStoredOnce ==
  (ret.op = "process_json" /\ ret.ok) =>
    \A i \in 1..Len(all_objs) :
       StoredCopies(all_objs[i]) = Occurrences(all_objs, all_objs[i])

\* C16: every call of save_json_sqlite that process_json makes has a schema
\* without "[]" in any keypath, and every table of the store is the parent
\* table of such a call: there is no child table and no child row.
C16_NoArraySchemaToSqlite ==
  ret.op = "process_json" =>
    /\ \A c \in 1..Len(calls) :
          calls[c].op = "save_json_sqlite" =>
            \A e \in 1..Len(calls[c].schema) : ~Contains(calls[c].schema[e].k, Brackets)
    /\ \A c \in 1..Len(calls) :
          HasArrayKeypath(calls[c].schema) => calls[c].op = "save_json_nosql"
    /\ \A t \in 1..Len(store_db) :
          \E c \in 1..Len(calls) :
             /\ calls[c].op = "save_json_sqlite"
             /\ store_db[t].name = ParentOf(calls[c].entity_name)

\* A run that saved a group to a table and a group with an array keypath to
\* a log.
C16_Witness ==
  /\ ret.op = "process_json"
  /\ ret.ok
  /\ \E c \in 1..Len(calls) : calls[c].op = "save_json_sqlite" /\ calls[c].added > 0
  /\ \E c \in 1..Len(calls) :
        calls[c].op = "save_json_nosql" /\ HasArrayKeypath(calls[c].schema)

\* The calls of save_json_sqlite for an entity, in call order.
CallsFor(entity_name) ==
  SelectSeq(calls, LAMBDA h : h.op = "save_json_sqlite" /\ h.entity_name = entity_name)

\* C14: after any sequence of save_json_sqlite calls for one entity name,
\* the columns of the parent table are those derived from the schema of the
\* first of these calls, whatever schemas the later calls brought.
C14_ColumnsOfFirstCall ==
  \A entity_name \in Entities :
     (CallsFor(entity_name) # <<>> /\ HasTable(store_db, ParentOf(entity_name)))
       => store_db[TableIdx(store_db, ParentOf(entity_name))].cols
            = ParentColumns(CallsFor(entity_name)[1].schema)


(***************************************************************************)
(* The claim about the visiting order, checked under SpecOrder.            *)
(***************************************************************************)
\* The noise and the groups of a labelling, as sets of records.
PartitionOf(objs, labels) ==
  [noise |-> {objs[i] : i \in {j \in 1..Len(objs) : labels[j] = -1}},
   groups |-> {{objs[i] : i \in {j \in 1..Len(objs) : labels[j] = lab}} :
                 lab \in Range(labels) \ {-1}}]

\* The records of the batch in the order of OrderPool.
Canonical == SelectSeq(OrderPool, LAMBDA o : o \in Range(all_objs))

\* The core records of a batch: those with at least min_samples records
\* within eps, themselves included.
CoreOf(objs, signatures, eps, min_samples) ==
  LET neigh == Neighborhoods(pairwise_distance(signatures), eps)
  IN {objs[i] : i \in {j \in 1..Len(objs) : Len(neigh[j]) >= min_samples}}

\* C15 as stated: the noise set and the groups of cluster_json_objects are
\* the same in whatever order the records are visited.
C15_PartitionIgnoresOrder ==
  ret.op = "cluster_json_objects" =>
    \A objs \in {Canonical} :
       \A labels \in {cluster_json_objects(objs, ret.eps, ret.min_samples).labels} :
          PartitionOf(all_objs, ret.labels) = PartitionOf(objs, labels)

\* C15 as the code has it: the noise set and the grouping of the core
\* records are the same in whatever order the records are visited, and with
\* min_samples at most 3 so are the groups; a record that is not core can
\* change its group with the order.
C15_CoreGroupsIgnoreOrder ==
  ret.op = "cluster_json_objects" =>
    \A objs \in {Canonical} :
       \A labels \in {cluster_json_objects(objs, ret.eps, ret.min_samples).labels} :
          \A core \in {CoreOf(all_objs, ret.signatures, ret.eps, ret.min_samples)} :
             \A mine \in {PartitionOf(all_objs, ret.labels)} :
                \A other \in {PartitionOf(objs, labels)} :
                   /\ mine.noise = other.noise
                   /\ {g \cap core : g \in mine.groups} = {g \cap core : g \in other.groups}
                   /\ \A g \in mine.groups : g \cap core # {}
                   /\ ret.min_samples <= 3 => mine.groups = other.groups

\* Some order of a batch puts a record that is not noise in another group
\* than the order of OrderPool does.
C15_Witness ==
  /\ ret.op = "cluster_json_objects"
  /\ \E objs \in {Canonical} :
        \E labels \in {cluster_json_objects(objs, ret.eps, ret.min_samples).labels} :
           /\ PartitionOf(all_objs, ret.labels).noise = PartitionOf(objs, labels).noise
           /\ PartitionOf(all_objs, ret.labels).groups # PartitionOf(objs, labels).groups

=============================================================================
